---- MODULE Spec2Model ----
(***************************************************************************)
(* A model of zns-metadata.py: the paginated collector (get_all_domains),  *)
(* the duplicate check, the IPFS pointer normalizer, the metered fetch     *)
(* pipeline (get_all_metadata over aiometer.run_all), the group            *)
(* partitioner, the flattener and the export that ends main.               *)
(*                                                                         *)
(* Strings the code inspects character by character (pointers, domain      *)
(* names, flattened keys) are sequences of one-character strings.          *)
(***************************************************************************)
EXTENDS Integers, Sequences, FiniteSets, TLC

VARIABLES
    pc,         \* position of the running function
    error,      \* the raised exception (NoError while none)
    \* ---- get_all_domains
    source,     \* the records the GraphQL source holds
    served,     \* the page size the source actually serves (at most `first`)
    maxId,      \* parameter maxId (total of the progress bar)
    lastId,     \* local lastId, the cursor
    results,    \* local results
    cursors,    \* the cursor of every page request sent so far
    pbar,       \* the progress bar's counter n
    \* ---- the record list the stages work on
    data,       \* the list `data` (the one list object every stage is handed)
    input,      \* `data` as it was when the running function was called
    duplicated, \* result of check_for_duplicated_entries
    not_match,  \* second result of format_ipfs_hash_in_dicts
    \* ---- separate_industries_into_files
    domain_groups,  \* parameter domain_groups
    industries,     \* the files of directory industries: group -> content
    csv,            \* the files of directory industries_csv: group -> rows
    main_results,   \* main's local results when a group's CSV is written
    \* ---- flatten
    input_dict,     \* parameter input_dict
    prefix,         \* parameter prefix
    output_dict,    \* the returned output_dict
    \* ---- get_all_metadata and aiometer.run_all
    n_tasks,            \* number of functions handed to run_all
    started,            \* tasks run_all has started (in input order)
    finished,           \* started tasks that have completed
    time_until_start,   \* periods until the rate meter admits the next task
    now,                \* the clock, in periods of the rate meter
    start_times,        \* the clock at every task start
    tasks,              \* per task: "queued", "running", "done", "cancelled"
    returned,           \* <<index, value>> of every completed task, as completed
    metadata_results,   \* the list get_all_metadata returns
    fetch_total,        \* total of the progress bar (parameter maxId)
    fetch_pbar,         \* the progress bar's counter n
    \* ---- main
    QUERY_THEGRAPH,     \* dev variable QUERY_THEGRAPH
    QUERY_INFURA,       \* dev variable QUERY_INFURA
    total_domains,      \* local total_domains
    files               \* the snapshot files: raw, no_metadata, with_metadata

collectVars == <<source, served, maxId, lastId, results, cursors, pbar>>

listVars == <<data, input, duplicated, not_match>>

groupVars == <<domain_groups, industries, csv, main_results>>

flatVars == <<input_dict, prefix, output_dict>>

meterVars == <<n_tasks, started, finished, time_until_start>>

clockVars == <<now, start_times>>

taskVars == <<tasks, returned, metadata_results, fetch_total, fetch_pbar>>

fetchVars == <<meterVars, clockVars, taskVars>>

mainVars == <<QUERY_THEGRAPH, QUERY_INFURA, total_domains, files>>

vars == <<pc, error, collectVars, listVars, groupVars, flatVars, fetchVars, mainVars>>

NoError == [kind |-> "none"]

(***************************************************************************)
(* Generic helpers                                                         *)
(***************************************************************************)
Min(a, b) == IF a <= b THEN a ELSE b

Max(a, b) == IF a >= b THEN a ELSE b

Range(s) == {s[i] : i \in 1..Len(s)}

\* the number of positions of s holding x
Count(s, x) == Cardinality({i \in 1..Len(s) : s[i] = x})

\* all sequences over S of length at most n
SeqsUpTo(S, n) == UNION {[1..k -> S] : k \in 0..n}

Digits == <<"0", "1", "2", "3", "4", "5", "6", "7", "8", "9">>

\* str(n) for n >= 0
RECURSIVE Str(_)
Str(n) == IF n < 10 THEN <<Digits[n + 1]>>
          ELSE Str(n \div 10) \o <<Digits[(n % 10) + 1]>>

\* 'ipfs://'
IpfsScheme == <<"i", "p", "f", "s", ":", "/", "/">>

DOMAIN_GROUPS ==
    << <<"w", "i", "l", "d", "e", "r", ".", "w", "h", "e", "e", "l", "s",
         ".", "g", "e", "n", "e", "s", "i", "s">>,
       <<"w", "i", "l", "d", "e", "r", ".", "k", "i", "c", "k", "s", ".",
         "a", "i", "r", "w", "i", "l", "d", ".", "s", "e", "a", "s", "o", "n",
         "0">>,
       <<"w", "i", "l", "d", "e", "r", ".", "k", "i", "c", "k", "s", ".",
         "a", "i", "r", "w", "i", "l", "d", ".", "s", "e", "a", "s", "o", "n",
         "1">>,
       <<"w", "i", "l", "d", "e", "r", ".", "k", "i", "c", "k", "s", ".",
         "a", "i", "r", "w", "i", "l", "d", ".", "s", "e", "a", "s", "o", "n",
         "2">>,
       <<"w", "i", "l", "d", "e", "r", ".", "m", "o", "t", "o", ".", "g",
         "e", "n", "e", "s", "i", "s">>,
       <<"w", "i", "l", "d", "e", "r", ".", "b", "e", "a", "s", "t", "s",
         ".", "w", "o", "l", "f">>,
       <<"w", "i", "l", "d", "e", "r", ".", "c", "r", "a", "f", "t", ".",
         "g", "e", "n", "e", "s", "i", "s">>,
       <<"w", "i", "l", "d", "e", "r", ".", "c", "r", "i", "b", "s", ".",
         "w", "i", "a", "m", "i", ".", "s", "o", "u", "t", "h", "b", "e", "a",
         "c", "h", ".", "q", "u", "b", "e">> >>

\* 'wilder.wheels.genesis'
WheelsGenesis == DOMAIN_GROUPS[1]

(***************************************************************************)
(* Bounds of the collector's inputs                                        *)
(***************************************************************************)
MaxBlock == 2       \* indexIds are drawn from blocks 0..MaxBlock of 1000
MaxServed == 2      \* small page sizes a source may serve
MaxTotal == 1       \* declared totals 0..MaxTotal

(***************************************************************************)
(* get_all_domains                                                         *)
(***************************************************************************)
\* `first: 1000` of the query, and the step of the cursor
PageSize == 1000

\* indexIds a modelled source may hold: around every multiple of PageSize
IndexPool == {b * PageSize + o : b \in 0..MaxBlock, o \in 0..1} \ {0}

\* the name and the metadata pointer of the domain of indexId i: the domain
\* of indexId 1000 is a group node, the others are its children; domains of
\* even indexId carry no IPFS path
NameAt(i) ==
    IF i = PageSize THEN WheelsGenesis ELSE WheelsGenesis \o <<".">> \o Str(i)

PointerAt(i) ==
    IF i % 2 = 1 THEN IpfsScheme \o <<"Q", "m">> \o Str(i) ELSE <<>>

\* the record the source holds under indexId i
Domain(i) == [id |-> i, indexId |-> i, name |-> NameAt(i), metadata |-> PointerAt(i)]

\* the page sizes a source may serve for a request of `first: 1000`
ServedSizes == (1..MaxServed) \cup {PageSize}

\* s sorted by indexId ascending (orderBy: indexId, orderDirection: asc)
RECURSIVE SortedByIndex(_)
SortedByIndex(S) ==
    IF S = {} THEN <<>>
    ELSE LET m == CHOOSE r \in S : \A q \in S : r.indexId <= q.indexId
         IN  <<m>> \o SortedByIndex(S \ {m})

\* the source's answer to: first 1000, where indexId_gt cursor, asc
Page(cursor) ==
    LET match == SortedByIndex({r \in source : r.indexId > cursor})
    IN  SubSeq(match, 1, Min(Len(match), Min(PageSize, served)))

\* lastId = lastId + 1000
NextCursor(cursor, page) == cursor + PageSize

\* the collector's variables while another function is under study
CollectIdle ==
    /\ source = {}
    /\ served = PageSize
    /\ maxId = 0
    /\ lastId = 0
    /\ results = <<>>
    /\ cursors = <<>>
    /\ pbar = 0

\* a file that does not exist, and one holding content
Absent == [exists |-> FALSE]

File(content) == [exists |-> TRUE, content |-> content]

MainIdle ==
    /\ QUERY_THEGRAPH = FALSE
    /\ QUERY_INFURA = FALSE
    /\ total_domains = 0
    /\ files = [raw |-> Absent, no_metadata |-> Absent, with_metadata |-> Absent]

FetchIdle ==
    /\ n_tasks = 0
    /\ started = 0
    /\ finished = 0
    /\ time_until_start = 0
    /\ now = 0
    /\ start_times = <<>>
    /\ tasks = <<>>
    /\ returned = <<>>
    /\ metadata_results = <<>>
    /\ fetch_total = 0
    /\ fetch_pbar = 0

FlatIdle ==
    /\ input_dict = <<>>
    /\ prefix = <<>>
    /\ output_dict = <<>>

GroupIdle ==
    /\ domain_groups = <<>>
    /\ industries = <<>>
    /\ csv = <<>>
    /\ main_results = <<>>

ListIdle ==
    /\ data = <<>>
    /\ input = <<>>
    /\ duplicated = <<>>
    /\ not_match = <<>>

InitCollect ==
    /\ pc = "collect"
    /\ error = NoError
    /\ MainIdle
    /\ ListIdle
    /\ GroupIdle
    /\ FlatIdle
    /\ FetchIdle
    /\ source \in {{Domain(i) : i \in S} : S \in SUBSET IndexPool}
    /\ served \in ServedSizes
    /\ maxId \in 0..MaxTotal
    /\ lastId = 0
    /\ results = <<>>
    /\ cursors = <<>>
    /\ pbar = 0

\* one iteration of the while loop whose request answers 200 with records
CollectPage ==
    /\ pc = "collect"
    /\ Page(lastId) # <<>>
    /\ cursors' = Append(cursors, lastId)
    /\ lastId' = NextCursor(lastId, Page(lastId))
    /\ results' = results \o Page(lastId)
    /\ pbar' = pbar + Len(Page(lastId))
    /\ UNCHANGED <<pc, error, source, served, maxId, listVars, groupVars, flatVars, fetchVars, mainVars>>

\* the loop leaving as soon as the declared total is reached
CollectDoneAtTotal ==
    /\ pc = "collect"
    /\ Page(lastId) = <<>> \/ pbar >= maxId
    /\ cursors' = Append(cursors, lastId)
    /\ lastId' = NextCursor(lastId, Page(lastId))
    /\ pc' = "collected"
    /\ UNCHANGED <<error, source, served, maxId, results, pbar, listVars, groupVars, flatVars, fetchVars, mainVars>>

\* the iteration whose request answers 200 with no record: break, return
CollectDone ==
    /\ pc = "collect"
    /\ Page(lastId) = <<>>
    /\ cursors' = Append(cursors, lastId)
    /\ lastId' = NextCursor(lastId, Page(lastId))
    /\ pc' = "collected"
    /\ UNCHANGED <<error, source, served, maxId, results, pbar, listVars, groupVars, flatVars, fetchVars, mainVars>>

\* status codes of a request that does not answer 200
FailureStatuses == {429, 500}

\* the exception raised were lastId advanced before the status is looked at
QueryFailedAfterAdvance(code, cursor) ==
    [kind |-> "Exception", stage |-> "collect", status |-> code,
     cursor |-> cursor + PageSize]

\* Exception('Query failed. return code is {}. {}'.format(status_code, query)):
\* the status and the query, which holds the cursor it was built with
QueryFailed(code, cursor) ==
    [kind |-> "Exception", stage |-> "collect", status |-> code, cursor |-> cursor]

\* an iteration whose request does not answer 200: raise Exception
CollectFail ==
    /\ pc = "collect"
    /\ \E code \in FailureStatuses : error' = QueryFailed(code, lastId)
    /\ cursors' = Append(cursors, lastId)
    /\ pc' = "raised"
    /\ UNCHANGED <<source, served, maxId, lastId, results, pbar, listVars, groupVars, flatVars, fetchVars, mainVars>>

NextCollect == CollectPage \/ CollectDone \/ CollectFail

SpecCollect == InitCollect /\ [][NextCollect]_vars

\* ---- the collector on a source whose every request answers 200: the while
\* loop runs its next iteration as long as it has not left
NextCollectOk == CollectPage \/ CollectDone

SpecCollectOk == InitCollect /\ [][NextCollectOk]_vars /\ WF_vars(NextCollectOk)

\* C1: when get_all_domains returns, every record of the source appears in
\* the result exactly once and nothing else does (N records, no gap, no
\* duplicate indexId), whatever the indexIds and the served page size.
C1_ExactlyOnce ==
    pc = "collected" =>
        /\ Len(results) = Cardinality(source)
        /\ \A r \in source : Count(results, r) = 1

(***************************************************************************)
(* check_for_duplicated_entries                                            *)
(***************************************************************************)
MaxDupData == 4     \* longest list handed to the duplicate check

\* names of the records of the duplicate check's inputs
DupNames == {<<"a">>, <<"b">>, <<"a", ".", "b">>}

\* the for loop over names[from..], with the locals seen and duplicated
RECURSIVE DupLoop(_, _, _, _)
DupLoop(names, from, seen, dups) ==
    IF from > Len(names) THEN dups
    ELSE IF names[from] \notin seen
         THEN DupLoop(names, from + 1, seen \cup {names[from]}, dups)
         ELSE DupLoop(names, from + 1, seen, Append(dups, names[from]))

check_for_duplicated_entries(d) ==
    DupLoop([i \in 1..Len(d) |-> d[i].name], 1, {}, <<>>)

InitDup ==
    /\ pc = "check"
    /\ error = NoError
    /\ MainIdle
    /\ CollectIdle
    /\ GroupIdle
    /\ FlatIdle
    /\ FetchIdle
    /\ \E names \in SeqsUpTo(DupNames, MaxDupData) :
         data = [i \in 1..Len(names) |->
                    [id |-> i, name |-> names[i], metadata |-> <<"Q">>]]
    /\ input = data
    /\ duplicated = <<>>
    /\ not_match = <<>>

CheckDuplicates ==
    /\ pc = "check"
    /\ duplicated' = check_for_duplicated_entries(data)
    /\ pc' = "checked"
    /\ UNCHANGED <<error, collectVars, data, input, not_match, groupVars, flatVars, fetchVars, mainVars>>

NextDup == CheckDuplicates

SpecDup == InitDup /\ [][NextDup]_vars

\* the names occurring more than once in d
RepeatedNames(d) ==
    {d[i].name : i \in {i \in 1..Len(d) : \E j \in 1..Len(d) : j # i /\ d[j].name = d[i].name}}

\* C6: the duplicate list is empty when all names are unique and otherwise
\* holds exactly the names that occur more than once, each listed once.
C6_EachRepeatedNameOnce ==
    pc = "checked" =>
        /\ Range(duplicated) = RepeatedNames(data)
        /\ \A n \in RepeatedNames(data) : Count(duplicated, n) = 1

(***************************************************************************)
(* Strings as sequences of characters, and the two regular expressions     *)
(***************************************************************************)
\* s[from..] begins with pat
MatchesAt(s, from, pat) ==
    /\ from + Len(pat) - 1 <= Len(s)
    /\ SubSeq(s, from, from + Len(pat) - 1) = pat

\* re.sub(re.compile(re.escape(pat)), '', s): one pass from the left, every
\* non-overlapping occurrence of the literal pat removed
RECURSIVE ReSubEmpty(_, _)
ReSubEmpty(pat, s) ==
    IF s = <<>> THEN <<>>
    ELSE IF MatchesAt(s, 1, pat)
         THEN ReSubEmpty(pat, SubSeq(s, Len(pat) + 1, Len(s)))
         ELSE <<Head(s)>> \o ReSubEmpty(pat, Tail(s))

\* re.search(re.escape(group) + r'\.[^.]+$', name): at some position of name
\* the literal group, a dot, then one or more characters other than a dot up
\* to the end of name
ReSearchChild(group, name) ==
    \E from \in 1..Len(name) :
        /\ MatchesAt(name, from, group \o <<".">>)
        /\ from + Len(group) + 1 <= Len(name)
        /\ \A k \in (from + Len(group) + 1)..Len(name) : name[k] # "."

(***************************************************************************)
(* format_ipfs_hash_in_dicts                                               *)
(***************************************************************************)
MaxChunks == 3      \* pointers are built from at most MaxChunks pieces
MaxNormData == 1    \* longest list handed to the normalizer

\* the pieces pointers are built from
PointerChunks ==
    {IpfsScheme, <<"Q">>, <<"i", "p">>, <<"f", "s", ":", "/", "/">>}

RECURSIVE Concat(_)
Concat(ss) == IF ss = <<>> THEN <<>> ELSE Head(ss) \o Concat(Tail(ss))

Pointers == {Concat(cs) : cs \in SeqsUpTo(PointerChunks, MaxChunks)}

\* the loop taking the entries it appends to not_match out of the list
RECURSIVE FormatLoopDropping(_, _, _)
FormatLoopDropping(d, from, nm) ==
    IF from > Len(d) THEN [data |-> d, not_match |-> nm]
    ELSE LET hash == ReSubEmpty(IpfsScheme, d[from].metadata)
         IN  IF hash = d[from].metadata
             THEN FormatLoopDropping(SubSeq(d, 1, from - 1) \o SubSeq(d, from + 1, Len(d)),
                                     from, Append(nm, d[from]))
             ELSE FormatLoopDropping([d EXCEPT ![from].metadata = hash], from + 1, nm)

\* the for loop over data[from..]: entries whose metadata re.sub leaves as it
\* is are appended to not_match, the others get the substituted metadata
RECURSIVE FormatLoop(_, _, _)
FormatLoop(d, from, nm) ==
    IF from > Len(d) THEN [data |-> d, not_match |-> nm]
    ELSE LET hash == ReSubEmpty(IpfsScheme, d[from].metadata)
         IN  IF hash = d[from].metadata
             THEN FormatLoop(d, from + 1, Append(nm, d[from]))
             ELSE FormatLoop([d EXCEPT ![from].metadata = hash], from + 1, nm)

format_ipfs_hash_in_dicts(d) == FormatLoop(d, 1, <<>>)

InitNorm ==
    /\ pc = "format"
    /\ error = NoError
    /\ MainIdle
    /\ CollectIdle
    /\ GroupIdle
    /\ FlatIdle
    /\ FetchIdle
    /\ \E ps \in SeqsUpTo(Pointers, MaxNormData) :
         data = [i \in 1..Len(ps) |->
                    [id |-> i, name |-> <<"a">>, metadata |-> ps[i]]]
    /\ input = data
    /\ duplicated = <<>>
    /\ not_match = <<>>

\* the call: the entries of the list passed in are assigned in place, and the
\* same list is returned beside not_match
FormatIpfsHash ==
    /\ pc = "format"
    /\ data' = format_ipfs_hash_in_dicts(data).data
    /\ not_match' = format_ipfs_hash_in_dicts(data).not_match
    /\ pc' = "formatted"
    /\ UNCHANGED <<error, collectVars, input, duplicated, groupVars, flatVars, fetchVars, mainVars>>

NextNorm == FormatIpfsHash

SpecNorm == InitNorm /\ [][NextNorm]_vars

\* p begins with 'ipfs://'
HasScheme(p) == MatchesAt(p, 1, IpfsScheme)

\* C8: a pointer beginning with 'ipfs://' becomes itself without that leading
\* prefix and its record is not in the unresolved set; a pointer not beginning
\* with it is left as it is and its record is in the unresolved set.
C8_LeadingPrefixOnly ==
    pc = "formatted" =>
        \A i \in 1..Len(input) :
            LET p == input[i].metadata
            IN  IF HasScheme(p)
                THEN /\ data[i].metadata = SubSeq(p, Len(IpfsScheme) + 1, Len(p))
                     /\ \A j \in 1..Len(not_match) : not_match[j].id # input[i].id
                ELSE /\ data[i].metadata = p
                     /\ \E j \in 1..Len(not_match) : not_match[j] = input[i]

(***************************************************************************)
(* separate_industries_into_files                                          *)
(***************************************************************************)
MaxNameLen == 5     \* longest domain name handed to the partitioner

NameChars == {"a", "b", "."}

Names == SeqsUpTo(NameChars, MaxNameLen)

\* group prefixes of the partitioner's inputs
GroupPool == {<<"a">>, <<"b">>, <<"a", ".", "b">>, <<"b", ".", "a">>}

\* the inner loop over data[from..] for one domain_group, local current_group
RECURSIVE GroupLoop(_, _, _, _)
GroupLoop(d, from, group, current_group) ==
    IF from > Len(d) THEN current_group
    ELSE IF ReSearchChild(group, d[from].name)
         THEN GroupLoop(d, from + 1, group,
                        Append(current_group,
                               [tokenId |-> d[from].id, domain |-> d[from].name,
                                metadata |-> d[from].metadata]))
         ELSE GroupLoop(d, from + 1, group, current_group)

\* the outer loop over groups[from..]: one file per group, a later file of
\* the same name replacing an earlier one
RECURSIVE SeparateLoop(_, _, _, _)
SeparateLoop(d, groups, from, written) ==
    IF from > Len(groups) THEN written
    ELSE SeparateLoop(d, groups, from + 1,
            [g \in DOMAIN written \cup {groups[from]} |->
                IF g = groups[from] THEN GroupLoop(d, 1, g, <<>>) ELSE written[g]])

InitGroup ==
    /\ pc = "separate"
    /\ error = NoError
    /\ MainIdle
    /\ CollectIdle
    /\ \E n \in Names :
         data \in {<<[id |-> 1, name |-> n, metadata |-> <<"Q">>]>>,
                   <<[id |-> 1, name |-> n, metadata |-> <<"Q">>],
                     [id |-> 2, name |-> <<"a", ".", "b">>, metadata |-> <<"Q">>]>>}
    /\ input = data
    /\ duplicated = <<>>
    /\ not_match = <<>>
    /\ domain_groups \in {<<g>> : g \in GroupPool}
            \cup {<<g, h>> : <<g, h>> \in {x \in GroupPool \X GroupPool : x[1] # x[2]}}
    /\ industries = <<>>
    /\ csv = <<>>
    /\ main_results = <<>>
    /\ FlatIdle
    /\ FetchIdle

SeparateIndustries ==
    /\ pc = "separate"
    /\ industries' = SeparateLoop(data, domain_groups, 1, industries)
    /\ pc' = "separated"
    /\ UNCHANGED <<error, collectVars, listVars, domain_groups, csv, main_results, flatVars, fetchVars, mainVars>>

NextGroup == SeparateIndustries

SpecGroup == InitGroup /\ [][NextGroup]_vars

\* n is g, a dot and one non-empty segment holding no dot
IsDirectChild(g, n) ==
    /\ Len(n) > Len(g) + 1
    /\ SubSeq(n, 1, Len(g) + 1) = g \o <<".">>
    /\ \A k \in (Len(g) + 2)..Len(n) : n[k] # "."

\* C9: a record is in the group of prefix g exactly when its name is g, a dot
\* and one non-empty dot-free segment.
C9_DirectChildrenOnly ==
    pc = "separated" =>
        \A gi \in 1..Len(domain_groups) : \A i \in 1..Len(data) :
            LET g == domain_groups[gi]
            IN  (\E k \in 1..Len(industries[g]) : industries[g][k].tokenId = data[i].id)
                    <=> IsDirectChild(g, data[i].name)

(***************************************************************************)
(* flatten                                                                 *)
(*                                                                         *)
(* A value is [t |-> "s", v |-> scalar], [t |-> "m", v |-> items] (a dict:  *)
(* its items [k, v] in insertion order, keys distinct) or                  *)
(* [t |-> "l", v |-> elements] (a list).                                   *)
(***************************************************************************)
MaxListLen == 2     \* longest list inside a flattened document

Scalar(x) == [t |-> "s", v |-> x]

Mapping(items) == [t |-> "m", v |-> items]

List(elems) == [t |-> "l", v |-> elems]

Item(key, value) == [k |-> key, v |-> value]

\* d[key] = value on a dict: an existing key keeps its place
DictSet(d, key, value) ==
    IF \E i \in 1..Len(d) : d[i].k = key
    THEN [i \in 1..Len(d) |-> IF d[i].k = key THEN Item(key, value) ELSE d[i]]
    ELSE Append(d, Item(key, value))

\* d.update(other)
RECURSIVE DictUpdate(_, _)
DictUpdate(d, other) ==
    IF other = <<>> THEN d
    ELSE DictUpdate(DictSet(d, Head(other).k, Head(other).v), Tail(other))

\* `isinstance(value, dict) and value`
IsNonEmptyDict(value) == value.t = "m" /\ value.v # <<>>

\* the element test of the for loop over a list value
IsRecursedElement(sublist) == IsNonEmptyDict(sublist)

\* the test without `and value`: an empty list is iterated and emits nothing
IsList(value) == value.t = "l"

\* `isinstance(value, list) and value`
IsNonEmptyList(value) == value.t = "l" /\ value.v # <<>>

\* enumerate(value, start=1)
FirstIndex == 1

RECURSIVE FlattenItems(_, _, _, _, _)
RECURSIVE FlattenList(_, _, _, _, _, _)

flatten(items, separator, pre) == FlattenItems(items, 1, separator, pre, <<>>)

\* the for loop over input_dict.items() from item `from` on, local output_dict
FlattenItems(items, from, separator, pre, out) ==
    IF from > Len(items) THEN out
    ELSE LET key == items[from].k
             value == items[from].v
         IN  IF IsNonEmptyDict(value)
             THEN FlattenItems(items, from + 1, separator, pre,
                      DictUpdate(out, flatten(value.v, separator, pre \o key \o separator)))
             ELSE IF IsNonEmptyList(value)
             THEN FlattenItems(items, from + 1, separator, pre,
                      FlattenList(value, 1, key, separator, pre, out))
             ELSE FlattenItems(items, from + 1, separator, pre,
                      DictSet(out, pre \o key, value))

\* the inner for loop over the elements of list `value` from position pos on
FlattenList(value, pos, key, separator, pre, out) ==
    IF pos > Len(value.v) THEN out
    ELSE LET sublist == value.v[pos]
             index == pos - 1 + FirstIndex
         IN  IF IsRecursedElement(sublist)
             THEN FlattenList(value, pos + 1, key, separator, pre,
                      DictUpdate(out, flatten(sublist.v, separator,
                          pre \o key \o separator \o Str(index) \o separator)))
             ELSE FlattenList(value, pos + 1, key, separator, pre,
                      DictSet(out, pre \o key \o separator \o Str(index), value))

\* ---- the documents flatten is applied to
Leaves == {Scalar("x"), Mapping(<<>>), List(<<>>)}

FlatKeys == {<<"a">>, <<"b">>, <<"a", ".", "1">>}

\* dicts of one item
Dicts1(V) == {<<Item(k, v)>> : k \in FlatKeys, v \in V}

\* lists of 1..MaxListLen elements
Lists(V) == {List(e) : e \in SeqsUpTo(V, MaxListLen) \ {<<>>}}

\* elements of the lists
Elements == Leaves \cup {Mapping(d) : d \in Dicts1(Leaves)} \cup {List(<<Scalar("x")>>)}

\* values of the first item of a document
Values ==
    Leaves \cup Lists(Elements)
           \cup {Mapping(d) : d \in Dicts1(Leaves \cup Lists(Leaves))}

\* values of its second item
SecondValues == Leaves \cup {List(<<Scalar("x")>>), Mapping(<<Item(<<"1">>, Scalar("y"))>>)}

Documents ==
    {<<>>} \cup Dicts1(Values)
           \cup {d \o e : <<d, e>> \in {x \in Dicts1(Values) \X Dicts1(SecondValues) :
                                          x[1][1].k # x[2][1].k}}

InitFlatten ==
    /\ pc = "flatten"
    /\ error = NoError
    /\ MainIdle
    /\ CollectIdle
    /\ ListIdle
    /\ GroupIdle
    /\ FetchIdle
    /\ input_dict \in Documents
    /\ prefix \in {<<>>, <<"p", ".">>}
    /\ output_dict = <<>>

Flatten ==
    /\ pc = "flatten"
    /\ output_dict' = flatten(input_dict, <<".">>, prefix)
    /\ pc' = "flattened"
    /\ UNCHANGED <<error, collectVars, listVars, groupVars, input_dict, prefix, fetchVars, mainVars>>

NextFlatten == Flatten

SpecFlatten == InitFlatten /\ [][NextFlatten]_vars

\* The <<key, value>> assignments of the depth-first rules, in depth-first
\* order: a non-empty dict value recurses under pre+key+separator; each
\* element of a non-empty list value recurses under
\* pre+key+separator+index+separator when it is a dict (any dict when
\* everyDict, a non-empty one otherwise) and is assigned key
\* pre+key+separator+index with the whole list as value when it is not; every
\* other value is assigned key pre+key.
RECURSIVE RuleAssignments(_, _, _, _)
RuleAssignments(items, separator, pre, everyDict) ==
    Concat([i \in 1..Len(items) |->
        LET key == items[i].k
            value == items[i].v
        IN  IF value.t = "m" /\ value.v # <<>>
            THEN RuleAssignments(value.v, separator, pre \o key \o separator, everyDict)
            ELSE IF value.t = "l" /\ value.v # <<>>
            THEN Concat([n \in 1..Len(value.v) |->
                    LET el == value.v[n]
                        at == pre \o key \o separator \o Str(n)
                    IN  IF el.t = "m" /\ (everyDict \/ el.v # <<>>)
                        THEN RuleAssignments(el.v, separator, at \o separator, everyDict)
                        ELSE << <<at, value>> >>])
            ELSE << <<pre \o key, value>> >>])

\* out is the mapping the assignments define: its keys are the assigned
\* keys, each once, in the order of their first assignment, and each key
\* holds the value of its last assignment
IsMappingOf(out, assigned) ==
    LET At(key) == {j \in 1..Len(assigned) : assigned[j][1] = key}
        First(key) == CHOOSE j \in At(key) : \A h \in At(key) : j <= h
        Last(key) == CHOOSE j \in At(key) : \A h \in At(key) : j >= h
    IN  /\ {out[i].k : i \in 1..Len(out)} = {assigned[j][1] : j \in 1..Len(assigned)}
        /\ \A i, j \in 1..Len(out) :
                i < j => out[i].k # out[j].k /\ First(out[i].k) < First(out[j].k)
        /\ \A i \in 1..Len(out) : out[i].v = assigned[Last(out[i].k)][2]

MaxBatch == 3       \* longest list handed to get_all_metadata, task by task
MaxExtra == 2       \* tasks beyond what a meter admits at once
MaxClock == 11      \* last clock value of the rate observation

\* max_per_second=50
MaxPerSecond == 50

\* max_at_once=100
MaxAtOnce == 100

\* INFURA_MAX_REQUESTS_PER_SEC = 10
INFURA_MAX_REQUESTS_PER_SEC == 10

\* periods a started task puts between itself and the next start
TaskDelta == 1

\* the comparison with <= instead of <: one task more is admitted
HasCapacityInclusive(in_flight) == in_flight <= MaxAtOnce

\* the comparison turned round: a start is admitted above the ceiling only
HasCapacityReversed(in_flight) == in_flight > MaxAtOnce

\* max_at_once=100: the meter admits a start below max_at_once
HasCapacity(in_flight) == in_flight < MaxAtOnce

\* run_all starts the next function
MeterAdmit ==
    /\ started < n_tasks
    /\ HasCapacity(started - finished)
    /\ time_until_start = 0
    /\ started' = started + 1
    /\ time_until_start' = TaskDelta
    /\ UNCHANGED <<n_tasks, finished>>

\* a started task completes
MeterRelease ==
    /\ started - finished > 0
    /\ finished' = finished + 1
    /\ UNCHANGED <<n_tasks, started, time_until_start>>

\* ---- the gateway's answers
Document(cid) == [kind |-> "document", of |-> cid]

ErrorBody(cid) == [kind |-> "error_body", of |-> cid]

\* answers whose body response.json() decodes: a 2xx with the document, or a
\* non-2xx whose body is the gateway's JSON error message
DecodableAnswers == {"ok", "http_error_json"}

\* answers that raise inside get_metadata: session.post raising, or a body
\* response.json() cannot decode
RaisingAnswers == {"network_error", "malformed_body"}

\* response.json() of a decodable answer to the request for cid
ResponseJson(answer, cid) ==
    IF answer = "ok" THEN Document(cid) ELSE ErrorBody(cid)

\* the values in completion order
InCompletionOrder(done) == [i \in 1..Len(done) |-> done[i][2]]

\* run_all's result: the values ordered by the index of their function
InInputOrder(done) ==
    [i \in 1..Len(done) |-> (CHOOSE d \in Range(done) : d[1] = i)[2]]

RunAllResult(done) == InInputOrder(done)

\* identifiers of the task-by-task batches
FetchPointers == {<<"Q">>, <<"R">>}

InitFetch ==
    /\ pc = "fetch"
    /\ error = NoError
    /\ MainIdle
    /\ CollectIdle
    /\ GroupIdle
    /\ FlatIdle
    /\ \E ps \in SeqsUpTo(FetchPointers, MaxBatch) :
         data = [i \in 1..Len(ps) |->
                    [id |-> i, name |-> <<"a">>, metadata |-> ps[i]]]
    /\ input = data
    /\ duplicated = <<>>
    /\ not_match = <<>>
    /\ n_tasks = Len(data)
    /\ started = 0
    /\ finished = 0
    /\ time_until_start = 0
    /\ now = 0
    /\ start_times = <<>>
    /\ tasks = [i \in 1..Len(data) |-> "queued"]
    /\ returned = <<>>
    /\ metadata_results = <<>>
    /\ fetch_total \in 0..MaxTotal
    /\ fetch_pbar = 0

\* run_all starts get_metadata for the next entry: the request is sent
StartTask ==
    /\ pc = "fetch"
    /\ MeterAdmit
    /\ tasks' = [tasks EXCEPT ![started + 1] = "running"]
    /\ UNCHANGED <<pc, error, collectVars, listVars, groupVars, flatVars,
                   clockVars, returned, metadata_results, fetch_total, fetch_pbar, mainVars>>

\* a period passes while the rate meter holds the next start back
FetchTick ==
    /\ pc = "fetch"
    /\ time_until_start > 0
    /\ time_until_start' = time_until_start - 1
    /\ UNCHANGED <<pc, error, collectVars, listVars, groupVars, flatVars,
                   n_tasks, started, finished, clockVars, taskVars, mainVars>>

\* get_metadata of entry i resumes with a decodable answer: the entry's
\* metadata becomes the decoded body, the bar advances, the entry is returned
TaskResolves(i) ==
    /\ pc = "fetch"
    /\ tasks[i] = "running"
    /\ MeterRelease
    /\ \E answer \in DecodableAnswers :
         data' = [data EXCEPT ![i].metadata = ResponseJson(answer, data[i].metadata)]
    /\ returned' = Append(returned, <<i, data'[i]>>)
    /\ fetch_pbar' = fetch_pbar + 1
    /\ tasks' = [tasks EXCEPT ![i] = "done"]
    /\ UNCHANGED <<pc, error, collectVars, input, duplicated, not_match, groupVars,
                   flatVars, clockVars, metadata_results, fetch_total, mainVars>>

\* the failure of entry i handled by storing what has been fetched so far
TaskRaisesStoringPartial(i) ==
    /\ pc = "fetch"
    /\ tasks[i] = "running"
    /\ MeterRelease
    /\ \E answer \in RaisingAnswers :
         error' = [kind |-> answer, stage |-> "fetch", entry |-> i]
    /\ tasks' = [j \in DOMAIN tasks |->
                    IF tasks[j] = "done" THEN "done" ELSE "cancelled"]
    /\ files' = [files EXCEPT !.with_metadata = File(InCompletionOrder(returned))]
    /\ pc' = "raised"
    /\ UNCHANGED <<collectVars, listVars, groupVars, flatVars, clockVars,
                   returned, metadata_results, fetch_total, fetch_pbar,
                   QUERY_THEGRAPH, QUERY_INFURA, total_domains>>

\* get_metadata of entry i raises: the other tasks are cancelled and the
\* exception leaves run_all and get_all_metadata
TaskRaises(i) ==
    /\ pc = "fetch"
    /\ tasks[i] = "running"
    /\ MeterRelease
    /\ \E answer \in RaisingAnswers :
         error' = [kind |-> answer, stage |-> "fetch", entry |-> i]
    /\ tasks' = [j \in DOMAIN tasks |->
                    IF tasks[j] = "done" THEN "done" ELSE "cancelled"]
    /\ pc' = "raised"
    /\ UNCHANGED <<collectVars, listVars, groupVars, flatVars, clockVars,
                   returned, metadata_results, fetch_total, fetch_pbar, mainVars>>

\* every task has completed: run_all returns, get_all_metadata returns
FetchReturn ==
    /\ pc = "fetch"
    /\ finished = n_tasks
    /\ metadata_results' = RunAllResult(returned)
    /\ pc' = "fetched"
    /\ UNCHANGED <<error, collectVars, listVars, groupVars, flatVars, meterVars,
                   clockVars, tasks, returned, fetch_total, fetch_pbar, mainVars>>

NextFetch ==
    \/ StartTask
    \/ FetchTick
    \/ \E i \in 1..n_tasks : TaskResolves(i)
    \/ \E i \in 1..n_tasks : TaskRaises(i)
    \/ FetchReturn

SpecFetch == InitFetch /\ [][NextFetch]_vars

\* C2: the list get_all_metadata returns is as long as its input and its i-th
\* element is the i-th input record with the gateway's answer to that
\* record's identifier as metadata, whatever the order of completion.
C2_OutputInInputOrder ==
    pc = "fetched" =>
        /\ Len(metadata_results) = Len(input)
        /\ \A i \in 1..Len(input) :
            /\ metadata_results[i].id = input[i].id
            /\ metadata_results[i].name = input[i].name
            /\ metadata_results[i].metadata.of = input[i].metadata

\* a batch of three has returned whose last entry completed first
C2_Witness ==
    /\ pc = "fetched"
    /\ Len(input) >= 3
    /\ returned[1][1] = Len(input)

\* C5: a list is returned only if every fetch answered with the document:
\* no returned record carries an error body as its metadata.
C5_NoErrorBodyReturned ==
    pc = "fetched" =>
        \A i \in 1..Len(metadata_results) :
            metadata_results[i].metadata.kind = "document"

(***************************************************************************)
(* The meters of run_all under load. The meters read only how many tasks   *)
(* have started and finished, so the batch is kept as these two counts and *)
(* the batches are as long as the constants of the call require.           *)
(***************************************************************************)
InitMeters(sizes) ==
    /\ pc = "fetch"
    /\ error = NoError
    /\ MainIdle
    /\ CollectIdle
    /\ ListIdle
    /\ GroupIdle
    /\ FlatIdle
    /\ n_tasks \in sizes
    /\ started = 0
    /\ finished = 0
    /\ time_until_start = 0
    /\ now = 0
    /\ start_times = <<>>
    /\ tasks = <<>>
    /\ returned = <<>>
    /\ metadata_results = <<>>
    /\ fetch_total \in 0..MaxTotal
    /\ fetch_pbar = 0

InitLoad == InitMeters(MaxAtOnce..(MaxAtOnce + MaxExtra))

\* run_all starts the next task
LoadStart ==
    /\ pc = "fetch"
    /\ MeterAdmit
    /\ UNCHANGED <<pc, error, collectVars, listVars, groupVars, flatVars,
                   clockVars, taskVars, mainVars>>

\* a period passes while the rate meter holds the next start back
LoadTick ==
    /\ pc = "fetch"
    /\ time_until_start > 0
    /\ time_until_start' = time_until_start - 1
    /\ UNCHANGED <<pc, error, collectVars, listVars, groupVars, flatVars,
                   n_tasks, started, finished, clockVars, taskVars, mainVars>>

\* a task in flight returns
LoadResolve ==
    /\ pc = "fetch"
    /\ MeterRelease
    /\ fetch_pbar' = fetch_pbar + 1
    /\ UNCHANGED <<pc, error, collectVars, listVars, groupVars, flatVars,
                   clockVars, tasks, returned, metadata_results, fetch_total, mainVars>>

\* a task in flight raises
LoadRaise ==
    /\ pc = "fetch"
    /\ MeterRelease
    /\ \E answer \in RaisingAnswers :
         error' = [kind |-> answer, stage |-> "fetch", entry |-> 0]
    /\ pc' = "raised"
    /\ UNCHANGED <<collectVars, listVars, groupVars, flatVars, clockVars, taskVars, mainVars>>

\* every task has completed
LoadReturn ==
    /\ pc = "fetch"
    /\ finished = n_tasks
    /\ pc' = "fetched"
    /\ UNCHANGED <<error, collectVars, listVars, groupVars, flatVars, fetchVars, mainVars>>

NextLoad == LoadStart \/ LoadTick \/ LoadResolve \/ LoadRaise \/ LoadReturn

SpecLoad == InitLoad /\ [][NextLoad]_vars

\* ---- the same batches when run_all's loop keeps running: a start the meters
\* admit is made, time passes, the return follows the last completion; and
\* every request in flight eventually returns or raises
SpecLoadFair ==
    /\ InitLoad
    /\ [][NextLoad]_vars
    /\ WF_vars(LoadStart)
    /\ WF_vars(LoadTick)
    /\ WF_vars(LoadResolve \/ LoadRaise)
    /\ WF_vars(LoadReturn)

\* C3: the tasks started and not yet completed never number more than the
\* concurrency ceiling, max_at_once.
C3_AtMostMaxAtOnceInFlight == started - finished <= MaxAtOnce

\* the ceiling is reached while further tasks wait to be started
C3_Witness ==
    /\ pc = "fetch"
    /\ started - finished = MaxAtOnce
    /\ started < n_tasks
    /\ time_until_start = 0

(***************************************************************************)
(* The same meters with the clock observed: every start is stamped.        *)
(***************************************************************************)
InitRate ==
    InitMeters((INFURA_MAX_REQUESTS_PER_SEC + 1)..(INFURA_MAX_REQUESTS_PER_SEC + MaxExtra))

RateStart ==
    /\ pc = "fetch"
    /\ MeterAdmit
    /\ start_times' = Append(start_times, now)
    /\ UNCHANGED <<pc, error, collectVars, listVars, groupVars, flatVars, now, taskVars, mainVars>>

\* a period passes
RateTick ==
    /\ pc = "fetch"
    /\ now < MaxClock
    /\ now' = now + 1
    /\ time_until_start' = Max(0, time_until_start - 1)
    /\ UNCHANGED <<pc, error, collectVars, listVars, groupVars, flatVars,
                   n_tasks, started, finished, start_times, taskVars, mainVars>>

RateResolve ==
    /\ pc = "fetch"
    /\ MeterRelease
    /\ fetch_pbar' = fetch_pbar + 1
    /\ UNCHANGED <<pc, error, collectVars, listVars, groupVars, flatVars,
                   clockVars, tasks, returned, metadata_results, fetch_total, mainVars>>

RateRaise ==
    /\ pc = "fetch"
    /\ MeterRelease
    /\ \E answer \in RaisingAnswers :
         error' = [kind |-> answer, stage |-> "fetch", entry |-> 0]
    /\ pc' = "raised"
    /\ UNCHANGED <<collectVars, listVars, groupVars, flatVars, clockVars, taskVars, mainVars>>

RateReturn ==
    /\ pc = "fetch"
    /\ finished = n_tasks
    /\ pc' = "fetched"
    /\ UNCHANGED <<error, collectVars, listVars, groupVars, flatVars, fetchVars, mainVars>>

NextRate == RateStart \/ RateTick \/ RateResolve \/ RateRaise \/ RateReturn

SpecRate == InitRate /\ [][NextRate]_vars

\* the requests initiated within the second that ends now: a second is
\* MaxPerSecond periods
StartsInLastSecond ==
    Cardinality({i \in 1..Len(start_times) : now - start_times[i] < MaxPerSecond})

\* C4: no rolling second holds more than INFURA_MAX_REQUESTS_PER_SEC request
\* starts.
C4_AtMostConfiguredRate == StartsInLastSecond <= INFURA_MAX_REQUESTS_PER_SEC

(***************************************************************************)
(* The export that ends main: every group file is loaded, the attributes   *)
(* of every record are sorted by trait_type and collapsed, the records are *)
(* flattened, sorted by domain and written as CSV.                         *)
(***************************************************************************)
MaxAttrs == 3       \* longest attributes list of an exported document

\* ---- the keys of the JSON objects the export reads
TokenIdKey == <<"t", "o", "k", "e", "n", "I", "d">>

DomainKey == <<"d", "o", "m", "a", "i", "n">>

MetadataKey == <<"m", "e", "t", "a", "d", "a", "t", "a">>

AttributesKey == <<"a", "t", "t", "r", "i", "b", "u", "t", "e", "s">>

TraitTypeKey == <<"t", "r", "a", "i", "t", "_", "t", "y", "p", "e">>

ValueKey == <<"v", "a", "l", "u", "e">>

\* the characters of the compared strings, in code point order
CodePoints ==
    <<".", "0", "1", "2", "3", "4", "5", "6", "7", "8", "9", "A", "Z", "a", "b",
      "c", "d", "e", "f", "g", "h", "i", "j", "k", "l", "m", "n", "o", "p", "q",
      "r", "s", "t", "u", "v", "w", "x", "y", "z">>

Ord(c) == CHOOSE n \in 1..Len(CodePoints) : CodePoints[n] = c

\* a < b on two str
RECURSIVE StrLess(_, _)
StrLess(a, b) ==
    IF b = <<>> THEN FALSE
    ELSE IF a = <<>> THEN TRUE
    ELSE IF Head(a) = Head(b) THEN StrLess(Tail(a), Tail(b))
    ELSE Ord(Head(a)) < Ord(Head(b))

\* the order of sorted(..., reverse=True)
SortsAfter(a, b) == StrLess(b, a)

\* the order of sorted(): the element of key a goes before the one of key b
SortsBefore(a, b) == StrLess(a, b)

\* sorted(s, key=...) where keys[i] is the key of s[i]: ascending and stable
Sorted(s, keys) ==
    LET Pos(i) == 1 + Cardinality({j \in 1..Len(s) :
                        SortsBefore(keys[j], keys[i]) \/ (keys[j] = keys[i] /\ j < i)})
    IN  [p \in 1..Len(s) |-> s[CHOOSE i \in 1..Len(s) : Pos(i) = p]]

\* key in d, d[key], d.keys(), d.values()
HasKey(d, key) == \E i \in 1..Len(d) : d[i].k = key

Get(d, key) == d[CHOOSE i \in 1..Len(d) : d[i].k = key].v

Keys(d) == [n \in 1..Len(d) |-> d[n].k]

Vals(d) == [n \in 1..Len(d) |-> d[n].v]

\* ---- what a group file holds, and json.load of it
\* a metadata value already held as JSON
Json(value) == [kind |-> "json", of |-> value]

\* an attribute of a document
AttributePair(trait, value) ==
    Mapping(<<Item(TraitTypeKey, Scalar(trait)), Item(ValueKey, Scalar(value))>>)

\* the document the gateway holds under cid, and its JSON error message
GatewayDocument(cid) ==
    Mapping(<<Item(<<"n", "a", "m", "e">>, Scalar(cid)),
              Item(AttributesKey, List(<<AttributePair(<<"Z">>, <<"1">>),
                                         AttributePair(<<"A">>, <<"2">>)>>))>>)

GatewayError(cid) == Mapping(<<Item(<<"M", "e", "s", "s", "a", "g", "e">>, Scalar(cid))>>)

JsonValue(metadata) ==
    IF metadata.kind = "json" THEN metadata.of
    ELSE IF metadata.kind = "document" THEN GatewayDocument(metadata.of)
    ELSE GatewayError(metadata.of)

\* json.load of a group file: the dicts separate_industries_into_files wrote
JsonLoad(content) ==
    [n \in 1..Len(content) |->
        <<Item(TokenIdKey, Scalar(content[n].tokenId)),
          Item(DomainKey, Scalar(content[n].domain)),
          Item(MetadataKey, JsonValue(content[n].metadata))>>]

\* ---- the loop body of the export
\* i['metadata']['attributes'] can be read
HasAttributes(i) ==
    /\ Get(i, MetadataKey).t = "m"
    /\ HasKey(Get(i, MetadataKey).v, AttributesKey)

\* sorted by trait_type, then each {trait_type, value} becomes {trait_type: value}
TransformAttributes(attributes) ==
    LET keys == [n \in 1..Len(attributes) |-> Get(attributes[n].v, TraitTypeKey).v]
        sorted == Sorted(attributes, keys)
    IN  [n \in 1..Len(sorted) |->
            Mapping(<<Item(Get(sorted[n].v, TraitTypeKey).v, Get(sorted[n].v, ValueKey))>>)]

\* i['metadata']['attributes'] = attributes
Transformed(i) ==
    LET metadata == Get(i, MetadataKey).v
        attributes == Get(metadata, AttributesKey).v
    IN  DictSet(i, MetadataKey,
            Mapping(DictSet(metadata, AttributesKey, List(TransformAttributes(attributes)))))

\* the for loop over data[from..]: a record without attributes raises
RECURSIVE TransformLoop(_, _)
TransformLoop(d, from) ==
    IF from > Len(d) THEN [data |-> d, raised |-> FALSE]
    ELSE IF ~HasAttributes(d[from]) THEN [data |-> d, raised |-> TRUE]
    ELSE TransformLoop([d EXCEPT ![from] = Transformed(d[from])], from + 1)

\* results = [flatten(i) for i in results], sorted by domain
FlattenedAndSorted(d) ==
    LET flat == [n \in 1..Len(d) |-> flatten(d[n], <<".">>, <<>>)]
    IN  Sorted(flat, [n \in 1..Len(flat) |-> Get(flat[n], DomainKey).v])

\* put_json_to_csv_in_file: the first entry's keys, then every entry's values
put_json_to_csv_in_file(entries) ==
    IF entries = <<>> THEN <<>>
    ELSE <<Keys(entries[1])>> \o [n \in 1..Len(entries) |-> Vals(entries[n])]

\* g |-> value added to the mapping f
Put(f, g, value) == [h \in DOMAIN f \cup {g} |-> IF h = g THEN value ELSE f[h]]

\* the for loop over DOMAIN_GROUPS[from..]
RECURSIVE ExportLoop(_, _, _, _, _)
ExportLoop(from, files_in, written, kept, last) ==
    IF from > Len(DOMAIN_GROUPS)
    THEN [csv |-> written, results |-> kept, data |-> last, raised |-> FALSE]
    ELSE LET domain == DOMAIN_GROUPS[from]
             loop == TransformLoop(JsonLoad(files_in[domain]), 1)
             sorted == FlattenedAndSorted(loop.data)
         IN  IF loop.raised
             THEN [csv |-> written, results |-> kept, data |-> loop.data, raised |-> TRUE]
             ELSE ExportLoop(from + 1, files_in,
                             Put(written, domain, put_json_to_csv_in_file(sorted)),
                             Put(kept, domain, sorted), loop.data)

\* ---- the group files the export is studied on
TraitTypes == {<<"A">>, <<"Z">>, <<"a">>, <<"A", "Z">>}

AttrValues == {<<"1">>, <<"2">>}

AttrLists ==
    SeqsUpTo({AttributePair(t, v) : <<t, v>> \in TraitTypes \X AttrValues}, MaxAttrs)

\* a record of a group file whose document holds the given items
Exported(id, name, items) ==
    [tokenId |-> id, domain |-> name, metadata |-> Json(Mapping(items))]

\* the records that may follow the first in its group file: none, one
\* without attributes sorting before or after it, one whose document has no
\* attributes field
SecondRecords ==
    {<<>>} \cup {<<Exported(2, n, <<Item(AttributesKey, List(<<>>))>>)>> :
                    n \in {<<"a">>, <<"c">>}}
           \cup {<<Exported(2, <<"c">>, <<>>)>>}

InitExport ==
    /\ pc = "separated"
    /\ error = NoError
    /\ MainIdle
    /\ CollectIdle
    /\ ListIdle
    /\ FlatIdle
    /\ FetchIdle
    /\ domain_groups = DOMAIN_GROUPS
    /\ \E attributes \in AttrLists : \E second \in SecondRecords :
         industries = [g \in Range(DOMAIN_GROUPS) |->
            IF g = WheelsGenesis
            THEN <<Exported(1, <<"b">>, <<Item(AttributesKey, List(attributes))>>)>>
                    \o second
            ELSE <<>>]
    /\ csv = <<>>
    /\ main_results = <<>>

\* lines 315-340 of main
ExportIndustries ==
    /\ pc = "separated"
    /\ LET done == ExportLoop(1, industries, csv, main_results, data)
       IN  /\ csv' = done.csv
           /\ main_results' = done.results
           /\ data' = done.data
           /\ IF done.raised
              THEN /\ error' = [kind |-> "KeyError", stage |-> "export"]
                   /\ pc' = "raised"
              ELSE /\ pc' = "exported"
                   /\ UNCHANGED error
    /\ UNCHANGED <<collectVars, input, duplicated, not_match, domain_groups,
                   industries, flatVars, fetchVars, mainVars>>

NextExport == ExportIndustries

SpecExport == InitExport /\ [][NextExport]_vars

\* the attributes of the first record of the wheels file, as loaded
ExportedPairs ==
    Get(JsonValue(industries[WheelsGenesis][1].metadata).v, AttributesKey).v

\* that record among the flattened results
ExportedFlat ==
    LET rs == main_results[WheelsGenesis]
    IN  rs[CHOOSE n \in 1..Len(rs) : Get(rs[n], TokenIdKey) = Scalar(1)]

\* the key of the record's attributes field, and the items flattened from it
AttributesPath == MetadataKey \o <<".">> \o AttributesKey

ExportedAttributeItems ==
    LET UnderAttributes(it) == MatchesAt(it.k, 1, AttributesPath \o <<".">>)
    IN  SelectSeq(ExportedFlat, UnderAttributes)

MaxMainData == 2    \* most records a run of main starts from

\* the record lists a snapshot file may hold: of a child with an IPFS path,
\* the group node, which has none, and a second child
SnapshotLists == SeqsUpTo({Domain(i) : i \in {1, PageSize, PageSize + 1}}, MaxMainData)

\* the sources a run of main may query
MainSources ==
    {{Domain(i) : i \in S} : S \in {T \in SUBSET IndexPool : Cardinality(T) <= MaxMainData}}

\* a run starts with the dev variables set either way; a stage that is
\* switched off reads the snapshot an earlier run left, if there is one
InitMain ==
    /\ pc = "main"
    /\ error = NoError
    /\ QUERY_THEGRAPH \in BOOLEAN
    /\ QUERY_INFURA \in BOOLEAN
    /\ total_domains = 0
    /\ \E raw \in {Absent} \cup {File(l) : l \in SnapshotLists} :
       \E with \in {Absent, File(<<>>),
                    File(<<[Domain(1) EXCEPT !.metadata = Document(<<"Q", "m", "1">>)]>>)} :
         /\ QUERY_THEGRAPH => raw = Absent
         /\ QUERY_INFURA => with = Absent
         /\ files = [raw |-> raw, no_metadata |-> Absent, with_metadata |-> with]
    /\ IF QUERY_THEGRAPH THEN source \in MainSources ELSE source = {}
    /\ served = PageSize
    /\ maxId = 0
    /\ lastId = 0
    /\ results = <<>>
    /\ cursors = <<>>
    /\ pbar = 0
    /\ ListIdle
    /\ GroupIdle
    /\ FlatIdle
    /\ FetchIdle

\* total_domains = get_total_domains(), the request answering 200
MainGetTotal ==
    /\ pc = "main"
    /\ total_domains' \in 0..MaxTotal
    /\ pc' = "query"
    /\ UNCHANGED <<error, collectVars, listVars, groupVars, flatVars, fetchVars,
                   QUERY_THEGRAPH, QUERY_INFURA, files>>

\* get_total_domains, the request not answering 200: total_domains is read
\* before it is assigned
MainGetTotalFails ==
    /\ pc = "main"
    /\ error' = [kind |-> "UnboundLocalError", stage |-> "total"]
    /\ pc' = "raised"
    /\ UNCHANGED <<collectVars, listVars, groupVars, flatVars, fetchVars, mainVars>>

\* QUERY_THEGRAPH: data = get_all_domains(total_domains) is called
MainQueryGraph ==
    /\ pc = "query"
    /\ QUERY_THEGRAPH
    /\ maxId' = total_domains
    /\ lastId' = 0
    /\ results' = <<>>
    /\ pbar' = 0
    /\ pc' = "collect"
    /\ UNCHANGED <<error, source, served, cursors, listVars, groupVars, flatVars,
                   fetchVars, mainVars>>

\* get_all_domains has returned: put_json_data_in_file(data, FILE_RAW_OUTPUT)
MainStoreRaw ==
    /\ pc = "collected"
    /\ data' = results
    /\ input' = results
    /\ files' = [files EXCEPT !.raw = File(results)]
    /\ pc' = "check"
    /\ UNCHANGED <<error, collectVars, duplicated, not_match, groupVars, flatVars,
                   fetchVars, QUERY_THEGRAPH, QUERY_INFURA, total_domains>>

\* not QUERY_THEGRAPH: data = json.load of FILE_RAW_OUTPUT
MainLoadRaw ==
    /\ pc = "query"
    /\ ~QUERY_THEGRAPH
    /\ IF files.raw.exists
       THEN /\ data' = files.raw.content
            /\ input' = files.raw.content
            /\ pc' = "check"
            /\ UNCHANGED error
       ELSE /\ error' = [kind |-> "FileNotFoundError", stage |-> "collect"]
            /\ pc' = "raised"
            /\ UNCHANGED <<data, input>>
    /\ UNCHANGED <<collectVars, duplicated, not_match, groupVars, flatVars,
                   fetchVars, mainVars>>

\* the step without its test: the run goes on whatever the duplicate list
MainDuplicatesIgnored ==
    /\ pc = "checked"
    /\ input' = data
    /\ pc' = "format"
    /\ UNCHANGED <<error, collectVars, data, duplicated, not_match, groupVars,
                   flatVars, fetchVars, mainVars>>

\* the duplicate list is empty: format_ipfs_hash_in_dicts(data) is called
MainDuplicatesNone ==
    /\ pc = "checked"
    /\ Len(duplicated) = 0
    /\ input' = data
    /\ pc' = "format"
    /\ UNCHANGED <<error, collectVars, data, duplicated, not_match, groupVars,
                   flatVars, fetchVars, mainVars>>

\* the duplicate list is not empty: raise Exception naming it
MainDuplicatesFound ==
    /\ pc = "checked"
    /\ Len(duplicated) # 0
    /\ error' = [kind |-> "Exception", stage |-> "check", entries |-> duplicated]
    /\ pc' = "raised"
    /\ UNCHANGED <<collectVars, listVars, groupVars, flatVars, fetchVars, mainVars>>

\* put_json_data_in_file(not_match, FILE_DOMAINS_WITHOUT_METADATA)
MainStoreNoMetadata ==
    /\ pc = "formatted"
    /\ files' = [files EXCEPT !.no_metadata = File(not_match)]
    /\ pc' = "infura"
    /\ UNCHANGED <<error, collectVars, listVars, groupVars, flatVars, fetchVars,
                   QUERY_THEGRAPH, QUERY_INFURA, total_domains>>

\* QUERY_INFURA: get_all_metadata(data, total_domains) is called and hands
\* run_all one get_metadata per entry of data
MainQueryInfura ==
    /\ pc = "infura"
    /\ QUERY_INFURA
    /\ input' = data
    /\ n_tasks' = Len(data)
    /\ started' = 0
    /\ finished' = 0
    /\ time_until_start' = 0
    /\ tasks' = [i \in 1..Len(data) |-> "queued"]
    /\ returned' = <<>>
    /\ metadata_results' = <<>>
    /\ fetch_total' = total_domains
    /\ fetch_pbar' = 0
    /\ pc' = "fetch"
    /\ UNCHANGED <<error, collectVars, data, duplicated, not_match, groupVars,
                   flatVars, clockVars, mainVars>>

\* get_all_metadata has returned:
\* put_json_data_in_file(data, FILE_DOMAINS_WITH_METADATA)
MainStoreMetadata ==
    /\ pc = "fetched"
    /\ data' = metadata_results
    /\ files' = [files EXCEPT !.with_metadata = File(metadata_results)]
    /\ domain_groups' = DOMAIN_GROUPS
    /\ pc' = "separate"
    /\ UNCHANGED <<error, collectVars, input, duplicated, not_match, industries, csv, main_results,
                   flatVars, fetchVars, QUERY_THEGRAPH, QUERY_INFURA, total_domains>>

\* not QUERY_INFURA: data = json.load of FILE_DOMAINS_WITH_METADATA
MainLoadMetadata ==
    /\ pc = "infura"
    /\ ~QUERY_INFURA
    /\ IF files.with_metadata.exists
       THEN /\ data' = files.with_metadata.content
            /\ domain_groups' = DOMAIN_GROUPS
            /\ pc' = "separate"
            /\ UNCHANGED error
       ELSE /\ error' = [kind |-> "FileNotFoundError", stage |-> "fetch"]
            /\ pc' = "raised"
            /\ UNCHANGED <<data, domain_groups>>
    /\ UNCHANGED <<collectVars, input, duplicated, not_match, industries, csv, main_results,
                   flatVars, fetchVars, mainVars>>

Next ==
    \/ MainGetTotal
    \/ MainGetTotalFails
    \/ MainQueryGraph
    \/ CollectPage
    \/ CollectDone
    \/ CollectFail
    \/ MainStoreRaw
    \/ MainLoadRaw
    \/ CheckDuplicates
    \/ MainDuplicatesNone
    \/ MainDuplicatesFound
    \/ FormatIpfsHash
    \/ MainStoreNoMetadata
    \/ MainQueryInfura
    \/ StartTask
    \/ FetchTick
    \/ \E i \in 1..n_tasks : TaskResolves(i)
    \/ \E i \in 1..n_tasks : TaskRaises(i)
    \/ FetchReturn
    \/ MainStoreMetadata
    \/ MainLoadMetadata
    \/ SeparateIndustries
    \/ ExportIndustries

Spec == InitMain /\ [][Next]_vars

C7_UnresolvableNotFetched ==
    /\ pc \in {"formatted", "infura", "fetch"} =>
        /\ \A i \in 1..Len(data) : \A j \in 1..Len(not_match) :
                data[i].id # not_match[j].id
        /\ \A k \in 1..Len(input) :
                \/ \E i \in 1..Len(data) : data[i].id = input[k].id
                \/ \E j \in 1..Len(not_match) : not_match[j].id = input[k].id
    /\ pc = "fetch" =>
        \A i \in 1..started : \A j \in 1..Len(not_match) :
            data[i].id # not_match[j].id

\* C13: once the duplicate list is found non-empty the run only raises, the
\* exception naming every repeated name, and no later stage has run or
\* written: the records are not normalized, no no-metadata or with-metadata
\* snapshot is written, no fetch is started, no group file and no CSV exists.
C13_DuplicatesAbortBeforeLaterStages ==
    Len(duplicated) # 0 =>
        /\ pc \in {"checked", "raised"}
        /\ pc = "raised" =>
            /\ error.kind = "Exception"
            /\ error.stage = "check"
            /\ RepeatedNames(data) \subseteq Range(error.entries)
        /\ data = input
        /\ not_match = <<>>
        /\ files.no_metadata = Absent
        /\ n_tasks = 0
        /\ started = 0
        /\ QUERY_INFURA => files.with_metadata = Absent
        /\ industries = <<>>
        /\ csv = <<>>
        /\ main_results = <<>>

\* a run has raised on a non-empty duplicate list
C13_Witness ==
    /\ pc = "raised"
    /\ error.kind = "Exception"
    /\ error.stage = "check"
    /\ Len(error.entries) > 0
    /\ RepeatedNames(data) # {}

\* C14: a snapshot file, once it exists, is never changed; and the step that
\* raises in the collection, the duplicate check or the fetch writes nothing
\* and leaves no output of its stage or of a later one: no group file and no
\* CSV, no with-metadata snapshot of a failed fetch, no snapshot at all of a
\* failed collection, while the snapshots of the stages completed before it
\* are there.
C14_NoPartialOutput ==
    [][/\ \A f \in {"raw", "no_metadata", "with_metadata"} :
            files[f].exists => files'[f] = files[f]
       /\ (pc' = "raised" /\ error'.stage \in {"collect", "check", "fetch"}) =>
            /\ files' = files
            /\ industries' = <<>>
            /\ csv' = <<>>
            /\ QUERY_INFURA => files'.with_metadata = Absent
            /\ error'.stage = "collect" =>
                /\ QUERY_THEGRAPH => files'.raw = Absent
                /\ files'.no_metadata = Absent
            /\ error'.stage = "check" =>
                /\ QUERY_THEGRAPH => files'.raw = File(results')
                /\ files'.no_metadata = Absent
            /\ error'.stage = "fetch" =>
                /\ QUERY_THEGRAPH => files'.raw = File(results')
                /\ files'.raw.exists
                /\ files'.no_metadata.exists]_vars

\* a fetch has raised after other fetches completed, the snapshots of the
\* earlier stages being written
C14_Witness ==
    /\ pc = "raised"
    /\ error.stage = "fetch"
    /\ QUERY_THEGRAPH
    /\ files.raw.exists
    /\ files.no_metadata.exists
    /\ returned # <<>>

\* the pages the source serves from a cursor on, up to the first empty one
RECURSIVE PagesFrom(_)
PagesFrom(cursor) ==
    IF Page(cursor) = <<>> THEN <<>>
    ELSE Page(cursor) \o PagesFrom(NextCursor(cursor, Page(cursor)))

\* C15: on a source whose every request answers 200, get_all_domains
\* returns whatever the declared total; the request it stops at is the first
\* that brought no record, every request before it brought some, and the
\* records returned are those pages, a value the declared total has no part
\* in.
C15_StopsAtFirstEmptyPage ==
    /\ <>(pc = "collected")
    /\ [](pc = "collected" =>
            /\ Page(cursors[Len(cursors)]) = <<>>
            /\ \A k \in 1..(Len(cursors) - 1) : Page(cursors[k]) # <<>>
            /\ results = PagesFrom(0))

\* the collector has returned more records than the declared total, after
\* several pages
C15_Witness ==
    /\ pc = "collected"
    /\ Len(results) > maxId
    /\ Cardinality(source) > maxId
    /\ Len(cursors) >= 3

\* the largest indexId among the records rs, 0 while there is none
LastSeen(rs) ==
    IF rs = <<>> THEN 0
    ELSE CHOOSE m \in {rs[i].indexId : i \in 1..Len(rs)} :
            \A i \in 1..Len(rs) : rs[i].indexId <= m

\* C16: the first request is sent with cursor 0, and whenever the loop is
\* about to send a request its cursor is the largest indexId among the
\* records the preceding pages returned.
C16_CursorIsLastSeenIndex ==
    /\ cursors # <<>> => cursors[1] = 0
    /\ pc = "collect" => lastId = LastSeen(results)

\* C17: once a fetch has completed, the progress counter equals the number
\* of fetches that have completed, returned or raised alike, and its target
\* is the number of records of the batch.
C17_ProgressCountsEveryCompletedFetch ==
    finished > 0 =>
        /\ fetch_pbar = finished
        /\ fetch_total = n_tasks

\* C18: every request in flight eventually returning or raising, a batch
\* larger than the concurrency ceiling ends: either get_all_metadata returns,
\* every task started and completed and none left waiting, or an exception
\* has left it; it never stays in the fetch with tasks not admitted.
C18_BatchEndsOneWayOrTheOther ==
    /\ <>(pc \in {"fetched", "raised"})
    /\ [](pc = "fetched" =>
            /\ started = n_tasks
            /\ finished = n_tasks
            /\ fetch_pbar = n_tasks
            /\ error = NoError)
    /\ [](pc = "raised" => error # NoError)

\* a batch has returned after tasks waited behind the concurrency ceiling
C18_Witness ==
    /\ pc = "fetched"
    /\ n_tasks > MaxAtOnce
    /\ finished = n_tasks

C20_AtMostOneGroup ==
    pc = "separated" =>
        \A i \in 1..Len(data) :
            Cardinality({g \in Range(domain_groups) :
                            \E k \in 1..Len(industries[g]) :
                                industries[g][k].tokenId = data[i].id}) <= 1

====
